---- MODULE Spec2Model ----
(***************************************************************************)
(* Optical tachometer firmware, tools/ardubenchmark/ardubenchmark.c.       *)
(*                                                                         *)
(* The module models the serial frame buffer (serial_send, serial_poll),   *)
(* the DC bias tracker (opto_update_dc_signal), the edge detector          *)
(* (opto_detect_edge) and the scheduler loop of main with its period and   *)
(* timeout tracking.  Three specifications share the variables:            *)
(*   Spec        the firmware: main from power-up onward;                  *)
(*   SpecDetect  opto_detect_edge called with arbitrary sample sequences;  *)
(*   SpecSerial  arbitrary interleavings of serial_send and serial_poll.   *)
(***************************************************************************)
EXTENDS Integers, Sequences, FiniteSets

\* ------------------------------------------------------------------ sizes

\* Window of the DC bias tracker.  The firmware uses 1024 (line 159); the
\* model keeps the same ring code over a short window so that the warm-up,
\* the transition and several wrap-arounds of the ring are all explored.
OPTO_DC_HISTORY_LEN == 3

\* Frames the serial observer records before it stops offering serial_send.
MaxFrames == 2

SERIAL_FRAME_HEADER == 250

SERIAL_FRAME_SIZE == 1 + 1 + 2 + 2 + 2

OPTO_THRESHOLD == 30

TIMEOUT_TICKS_late == 50000 + 10000

TIMEOUT_TICKS == 50000

ADC_CHAN_OPTO == 0

ADC_CHAN_CURR == 6

ADC_CHAN_VOLT_as_current == 7 - 1

ADC_CHAN_VOLT == 7

\* uint8_t and uint16_t ranges
U8 == 2^8

U16 == 2^16

\* ----------------------------------------------------------- input domains

\* 8-bit optical samples (ADCH) offered to opto_detect_edge by SpecDetect
Samples == {0, 40, 60, 255}

\* 8-bit optical samples read by main in Spec: light path open or obscured
OptoLevels == {0, 255}

\* values of the free-running 16-bit timer TCNT1
Stamps == {1000, 1500, 60000}

\* 10-bit results of adc_read16()
AdcWide == {1, 1023}

\* 16-bit arguments offered to serial_send by SpecSerial
Words == {0, 500, 65535}

VARIABLES
    \* struct serial_tx_frame and the UART data register
    data, next_index, UDR0,
    \* statics of opto_update_dc_signal
    hist, num_samples, index, sum,
    \* opto_detect_edge: its static, its locals dc and ac, its return value
    in_peak, dc, ac, edge,
    \* output ports: PORTD carries the RPM output on bit 2, PORTB the LED on bit 5
    PORTD, PORTB,
    \* ADC: selected channel (ADMUX low nibble), the conversion-complete flag, the
    \* channel the conversion in progress (or last finished) was started on, and
    \* the channel whose result the data register holds
    adc_channel, adc_ready, adc_conv_chan, adc_result_chan,
    \* main: control position and locals
    pc, prev_opto_timestamp, opto_timed_out, timestamp, need_publish, tach,
    voltage, current, success, failure_latch,
    \* observation only (no counterpart in the firmware)
    last_op, recent, edges_seen, idle_since_edge, last_edge, stalls_in_run,
    gap_over, txlog, loaded, polled_ready, rejected_seen, sends_done, unsent,
    true_gap, since_edge, gap_at_call, track_calls

serial_vars == <<data, next_index, UDR0>>

dc_vars == <<hist, num_samples, index, sum>>

detect_vars == <<in_peak, dc, ac, edge, PORTD>>

detect_obs == <<recent, edges_seen, idle_since_edge>>

adc_vars == <<adc_channel, adc_ready, adc_conv_chan, adc_result_chan>>

main_vars == <<pc, prev_opto_timestamp, opto_timed_out, timestamp, need_publish,
               tach, voltage, current, failure_latch, PORTB, last_edge, stalls_in_run,
               gap_over>>

serial_obs == <<txlog, loaded, polled_ready>>

pub_obs == <<rejected_seen, sends_done, unsent>>

track_obs == <<true_gap, since_edge, gap_at_call, track_calls>>

vars == <<data, next_index, UDR0, hist, num_samples, index, sum, in_peak, dc, ac,
          edge, PORTD, PORTB, adc_channel, adc_ready, pc, prev_opto_timestamp,
          opto_timed_out, timestamp, need_publish, tach, voltage, current, success,
          failure_latch, last_op, recent, edges_seen, idle_since_edge, last_edge,
          stalls_in_run, gap_over, txlog, loaded, polled_ready, rejected_seen,
          sends_done, unsent, true_gap, since_edge, gap_at_call, track_calls,
          adc_conv_chan, adc_result_chan>>

\* ------------------------------------------------------------------ helpers

RECURSIVE SumSeq(_)
SumSeq(s) == IF s = <<>> THEN 0 ELSE Head(s) + SumSeq(Tail(s))

\* bit n of an 8-bit port value
Bit(v, n) == (v \div (2^n)) % 2 = 1

\* ---------------------------------------------------------- serial frame buffer

\* memcpy of a uint16_t into two bytes on the little-endian AVR
LoByteBigEndian(x) == x \div U8

LoByte(x) == x % U8

HiByte(x) == x \div U8

\* serial_tx_frame.next_index < SERIAL_FRAME_SIZE  (a frame is still draining)
FrameDrainingOffByOne(ni) == ni < SERIAL_FRAME_SIZE - 1

FrameDraining(ni) == ni < SERIAL_FRAME_SIZE

\* data[1] = 0; for (int i = 2; i < SERIAL_FRAME_SIZE; ++i) data[1] += data[i];
RECURSIVE ChecksumLoop(_, _, _)
ChecksumLoop(d, i, acc) ==
    IF i < SERIAL_FRAME_SIZE THEN ChecksumLoop(d, i + 1, (acc + d[i]) % U8) ELSE acc

\* the frame bytes serial_send writes over the old buffer contents d
FrameBytes(d, t, v, c) ==
    LET filled == [d EXCEPT ![0] = SERIAL_FRAME_HEADER,
                            ![2] = LoByte(t), ![3] = HiByte(t),
                            ![4] = LoByte(v), ![5] = HiByte(v),
                            ![6] = LoByte(c), ![7] = HiByte(c)]
    IN  [filled EXCEPT ![1] = ChecksumLoop(filled, 2, 0)]

\* serial_send(tach, voltage, current); the returned flag is left in success'
serial_send(t, v, c) ==
    IF FrameDraining(next_index)
      THEN /\ success' = FALSE
           /\ UNCHANGED <<data, next_index, UDR0>>
      ELSE /\ data' = FrameBytes(data, t, v, c)
           /\ next_index' = 0
           /\ success' = TRUE
           /\ UNCHANGED UDR0

\* serial_tx_frame.next_index++  (uint8_t)
AdvanceCursorStuck(ni) == ni

AdvanceCursor(ni) == (ni + 1) % U8

\* serial_poll(); txready is bit 5 of UCSR0A (transmit register empty)
serial_poll_ignores_ready(txready) ==
    IF next_index >= SERIAL_FRAME_SIZE
      THEN UNCHANGED <<data, next_index, UDR0>>
      ELSE /\ UDR0' = data[next_index]
           /\ next_index' = AdvanceCursor(next_index)
           /\ UNCHANGED data

serial_poll(txready) ==
    IF next_index >= SERIAL_FRAME_SIZE
      THEN UNCHANGED <<data, next_index, UDR0>>
      ELSE IF ~txready
        THEN UNCHANGED <<data, next_index, UDR0>>
        ELSE /\ UDR0' = data[next_index]
             /\ next_index' = AdvanceCursor(next_index)
             /\ UNCHANGED data

\* ------------------------------------------------------------- DC bias tracker

\* return sum / num_samples, narrowed to the uint8_t return type
BiasFixedDivisor(s, n) == (s \div OPTO_DC_HISTORY_LEN) % U8

Bias(s, n) == (s \div n) % U8

\* sum -= hist[index]; sum += sample.  sum is a uint32_t; the model keeps the
\* exact integer, and SumInRange (checked in every state) shows that neither the
\* subtraction nor the additions ever leave 0 .. 2^32 - 1, so nothing wraps.
SumKeepEvicted(s, evicted, sample) == s + sample

SumAfterEvict(s, evicted, sample) == (s - evicted) + sample

\* index += 1; if (index >= OPTO_DC_HISTORY_LEN) index = 0;
NextIndex(i) == IF (i + 1) % U16 >= OPTO_DC_HISTORY_LEN THEN 0 ELSE (i + 1) % U16

\* opto_update_dc_signal(sample); the returned bias is left in dc'
opto_update_dc_signal(sample) ==
    IF num_samples = OPTO_DC_HISTORY_LEN
      THEN /\ sum' = SumAfterEvict(sum, hist[index], sample)
           /\ hist' = [hist EXCEPT ![index] = sample]
           /\ index' = NextIndex(index)
           /\ UNCHANGED num_samples
           /\ dc' = Bias(sum', OPTO_DC_HISTORY_LEN)
      ELSE /\ hist' = [hist EXCEPT ![num_samples] = sample]
           /\ num_samples' = (num_samples + 1) % U16
           /\ sum' = sum + sample
           /\ UNCHANGED index
           /\ dc' = Bias(sum', num_samples')

\* --------------------------------------------------------------- edge detector

\* #define rpm_out_set() PORTD = 0xFF
rpm_out_set_wrong_mask == 255 - 4

rpm_out_set == 255

\* #define rpm_out_clr() PORTD = 0xFB
rpm_out_clr == 251

\* ac > OPTO_THRESHOLD
AboveHighInclusive(a) == a >= OPTO_THRESHOLD

AboveHigh(a) == a > OPTO_THRESHOLD

\* ac < (OPTO_THRESHOLD / 4)
BelowLowNoDivide(a) == a < OPTO_THRESHOLD

BelowLow(a) == a < (OPTO_THRESHOLD \div 4)

\* opto_detect_edge(sample); the returned flag is left in edge'
opto_detect_edge(sample) ==
    /\ opto_update_dc_signal(sample)
    /\ ac' = sample - dc'
    /\ IF in_peak
         THEN /\ in_peak' = IF BelowLow(ac') THEN FALSE ELSE in_peak
              /\ edge' = FALSE
              /\ UNCHANGED PORTD
         ELSE IF AboveHigh(ac')
                THEN /\ PORTD' = rpm_out_set
                     /\ in_peak' = TRUE
                     /\ edge' = TRUE
                ELSE /\ PORTD' = rpm_out_clr
                     /\ edge' = FALSE
                     /\ UNCHANGED in_peak

\* Observation of one opto_detect_edge call: the most recent samples (at most a
\* window's worth), how many calls have returned true (0, 1, or 2 for "two or
\* more"), and whether the detector has gone through the idle return (a call in
\* the peak state with ac below the low threshold 7 that resets in_peak) since
\* it last returned true.
ObserveDetect(sample) ==
    /\ recent' = IF Len(recent) < OPTO_DC_HISTORY_LEN
                   THEN Append(recent, sample)
                   ELSE Append(Tail(recent), sample)
    /\ edges_seen' = IF edge' /\ edges_seen < 2 THEN edges_seen + 1 ELSE edges_seen
    /\ idle_since_edge' = IF edge' THEN FALSE
                          ELSE IF in_peak /\ ac' < 7 /\ ~in_peak' THEN TRUE
                          ELSE idle_since_edge
    /\ last_op' = "opto_detect_edge"

\* ------------------------------------------------------------------ power-up

\* State when main reaches its loop (line 222): gpio_init, serial_init,
\* adc_init and timer_init have run, the optical channel is selected and its
\* first conversion started, prev_opto_timestamp holds a timer reading.
Init ==
    /\ data = [i \in 0..(SERIAL_FRAME_SIZE - 1) |-> 0]
    /\ next_index = SERIAL_FRAME_SIZE
    /\ UDR0 = 0
    /\ hist = [i \in 0..(OPTO_DC_HISTORY_LEN - 1) |-> 0]
    /\ num_samples = 0
    /\ index = 0
    /\ sum = 0
    /\ in_peak = FALSE
    /\ dc = 0
    /\ ac = 0
    /\ edge = FALSE
    /\ PORTD = 255
    /\ PORTB = 255
    /\ adc_channel = ADC_CHAN_OPTO
    /\ adc_ready = FALSE
    /\ adc_conv_chan = ADC_CHAN_OPTO
    /\ adc_result_chan = ADC_CHAN_OPTO
    /\ pc = "wait_opto"
    /\ prev_opto_timestamp \in Stamps
    /\ opto_timed_out = TRUE
    /\ timestamp = 0
    /\ need_publish = FALSE
    /\ tach = 0
    /\ voltage = 0
    /\ current = 0
    /\ success = TRUE
    /\ failure_latch = FALSE
    /\ last_op = "init"
    /\ recent = <<>>
    /\ edges_seen = 0
    /\ idle_since_edge = FALSE
    /\ last_edge = -1
    /\ stalls_in_run = 0
    /\ gap_over = FALSE
    /\ txlog = <<>>
    /\ loaded = <<>>
    /\ polled_ready = FALSE
    /\ rejected_seen = FALSE
    /\ sends_done = FALSE
    /\ unsent = 0
    /\ true_gap = 0
    /\ since_edge = -1
    /\ gap_at_call = 0
    /\ track_calls = 0

\* ------------------------------------------------ SpecDetect: the detector alone

DetectCall ==
    \E sample \in Samples :
        /\ opto_detect_edge(sample)
        /\ ObserveDetect(sample)
        /\ UNCHANGED <<serial_vars, adc_vars, main_vars, success, serial_obs, pub_obs,
                     track_obs>>

NextDetect == DetectCall

SpecDetect == Init /\ [][NextDetect]_vars

\* ------------------------------------------------------- Spec: the scheduler loop

\* timestamp - prev_opto_timestamp.  Both are uint16_t and int has 16 bits on
\* the AVR, so the difference is an unsigned 16-bit value.
TachDeltaNoWrap(ts, prev) == ts - prev

TachDelta(ts, prev) == (ts - prev) % U16

\* timestamp - prev_opto_timestamp > 50000  (the unsigned 16-bit difference,
\* compared as a long)
StallElapsedNoWrap(ts, prev) == ts - prev > TIMEOUT_TICKS

StallElapsed(ts, prev) == TachDelta(ts, prev) > TIMEOUT_TICKS

\* if (!opto_timed_out): the period of a detected edge is published
EdgeReportableAlways(timed_out) == TRUE

EdgeReportable(timed_out) == ~timed_out

\* led_set(on): sets or clears bit 5 of PORTB
led_set_never_clears(pb, on) ==
    IF on /\ ~Bit(pb, 5) THEN pb + 32 ELSE pb

led_set(pb, on) ==
    IF on THEN (IF Bit(pb, 5) THEN pb ELSE pb + 32)
          ELSE (IF Bit(pb, 5) THEN pb - 32 ELSE pb)

\* the wait loops of main: lines 223, 247, 251, 256
WaitPcs == {"wait_opto", "wait_pub", "wait_volt", "wait_curr"}

\* The hardware finishes the conversion in progress and raises the flag
\* adc_is_ready() tests.
AdcComplete ==
    /\ ~adc_ready
    /\ adc_ready' = TRUE
    /\ adc_result_chan' = adc_conv_chan
    /\ last_op' = "adc_complete"
    /\ UNCHANGED <<adc_channel, adc_conv_chan, serial_vars, success, dc_vars,
                   detect_vars, detect_obs, main_vars, serial_obs, pub_obs, track_obs>>

\* wait_adc_poll_serial(): one turn of a wait loop whose test finds the
\* conversion still running, so that serial_poll() is called, the transmitter
\* being ready or not
WaitTurnWithoutPoll(txready) ==
    /\ pc \in WaitPcs
    /\ ~adc_ready
    /\ last_op' = "serial_poll"
    /\ UNCHANGED <<serial_vars, adc_vars, success, dc_vars, detect_vars, detect_obs,
                   main_vars, serial_obs, pub_obs, track_obs>>

WaitTurn(txready) ==
    /\ pc \in WaitPcs
    /\ ~adc_ready
    /\ serial_poll(txready)
    /\ last_op' = "serial_poll"
    /\ UNCHANGED <<adc_vars, success, dc_vars, detect_vars, detect_obs, main_vars,
                   serial_obs, pub_obs, track_obs>>

WaitPoll == \E txready \in BOOLEAN : WaitTurn(txready)

\* Lines 232-244: the period/timeout tracking of one iteration, given what
\* opto_detect_edge returned and the timer reading of the iteration
Tracker(e, ts) ==
    IF e
      THEN /\ IF EdgeReportable(opto_timed_out)
                THEN /\ tach' = TachDelta(ts, prev_opto_timestamp)
                     /\ need_publish' = TRUE
                     /\ UNCHANGED opto_timed_out
                ELSE /\ opto_timed_out' = FALSE
                     /\ tach' = 0
                     /\ need_publish' = FALSE
           /\ prev_opto_timestamp' = ts
      ELSE IF StallElapsed(ts, prev_opto_timestamp)
             THEN /\ opto_timed_out' = TRUE
                  /\ prev_opto_timestamp' = ts
                  /\ need_publish' = TRUE
                  /\ tach' = 0
             ELSE /\ tach' = 0
                  /\ need_publish' = FALSE
                  /\ UNCHANGED <<opto_timed_out, prev_opto_timestamp>>

\* Line 246: only an iteration that has something to publish runs the publish
\* cycle; the other ones go back to the wait of line 223.
PublishCycleAlways(np) == "wait_pub"

PublishCycle(np) == IF np THEN "wait_pub" ELSE "wait_opto"

\* Lines 263-265: the failure latch after a serial_send that returned ok
FailureLatchFollowsLast(latch, ok) == ~ok

FailureLatch(latch, ok) == IF ~ok THEN TRUE ELSE latch

\* Lines 223-246: the optical conversion is ready; start the next one, read
\* the sample and the timer, run the edge detector and the period/timeout
\* tracking, and decide whether to publish.
Iterate ==
    /\ pc = "wait_opto"
    /\ adc_ready
    /\ adc_ready' = FALSE
    /\ adc_conv_chan' = adc_channel
    /\ \E sample \in OptoLevels, ts \in Stamps :
        /\ opto_detect_edge(sample)
        /\ ObserveDetect(sample)
        /\ Tracker(edge', ts)
        \* timestamp lives until the end of the iteration, which is here unless
        \* the iteration goes on to publish
        /\ timestamp' = IF need_publish' THEN ts ELSE 0
        \* observation: the timestamp of the last detected edge (-1 once a stall
        \* event has been published after it, and before the first edge), the
        \* stall events published since the last detected edge (2 for "two or
        \* more"), and whether this iteration's timer reading was more than
        \* 50000 ticks (modulo 2^16) past prev_opto_timestamp
        /\ last_edge' = IF edge' THEN ts
                        ELSE IF need_publish' THEN -1
                        ELSE last_edge
        /\ stalls_in_run' = IF edge' THEN 0
                            ELSE IF need_publish' /\ stalls_in_run < 2 THEN stalls_in_run + 1
                            ELSE stalls_in_run
        /\ gap_over' = LET d == ts - prev_opto_timestamp
                       IN  (IF d < 0 THEN d + 65536 ELSE d) > 50000
    /\ pc' = PublishCycle(need_publish')
    \* observation: the reportable events not yet followed by a serial_send call
    /\ unsent' = IF need_publish' THEN unsent + 1 ELSE unsent
    /\ UNCHANGED <<adc_channel, adc_result_chan, serial_vars, success, voltage, current,
                   failure_latch, PORTB, serial_obs, rejected_seen, sends_done,
                   track_obs>>

\* Lines 247-250: the optical conversion started by this iteration is over;
\* select the voltage channel and start its conversion.
StartVoltage ==
    /\ pc = "wait_pub"
    /\ adc_ready
    /\ adc_channel' = ADC_CHAN_VOLT
    /\ adc_ready' = FALSE
    /\ adc_conv_chan' = adc_channel'
    /\ pc' = "wait_volt"
    /\ last_op' = "adc_start"
    /\ UNCHANGED <<adc_result_chan, serial_vars, success, dc_vars, detect_vars,
                   detect_obs, prev_opto_timestamp, opto_timed_out, timestamp,
                   need_publish, tach, voltage, current, failure_latch, PORTB,
                   last_edge, stalls_in_run, gap_over, serial_obs, pub_obs, track_obs>>

\* Lines 251-255: read the voltage, select the current channel and start its
\* conversion.
ReadVoltageWithoutWait ==
    /\ pc = "wait_volt"
    /\ \E v \in AdcWide : voltage' = v
    /\ adc_channel' = ADC_CHAN_CURR
    /\ adc_ready' = FALSE
    /\ adc_conv_chan' = adc_channel'
    /\ pc' = "wait_curr"
    /\ last_op' = "adc_start"
    /\ UNCHANGED <<adc_result_chan, serial_vars, success, dc_vars, detect_vars,
                   detect_obs, prev_opto_timestamp, opto_timed_out, timestamp,
                   need_publish, tach, current, failure_latch, PORTB, last_edge,
                   stalls_in_run, gap_over, serial_obs, pub_obs, track_obs>>

ReadVoltage ==
    /\ pc = "wait_volt"
    /\ adc_ready
    /\ \E v \in AdcWide : voltage' = v
    /\ adc_channel' = ADC_CHAN_CURR
    /\ adc_ready' = FALSE
    /\ adc_conv_chan' = adc_channel'
    /\ pc' = "wait_curr"
    /\ last_op' = "adc_start"
    /\ UNCHANGED <<adc_result_chan, serial_vars, success, dc_vars, detect_vars,
                   detect_obs, prev_opto_timestamp, opto_timed_out, timestamp,
                   need_publish, tach, current, failure_latch, PORTB, last_edge,
                   stalls_in_run, gap_over, serial_obs, pub_obs, track_obs>>

\* Lines 256-260: read the current, go back to the optical channel and start
\* its conversion.
ReadCurrent ==
    /\ pc = "wait_curr"
    /\ adc_ready
    /\ \E c \in AdcWide : current' = c
    /\ adc_channel' = ADC_CHAN_OPTO
    /\ adc_ready' = FALSE
    /\ adc_conv_chan' = adc_channel'
    /\ pc' = "send"
    /\ last_op' = "adc_start"
    /\ UNCHANGED <<adc_result_chan, serial_vars, success, dc_vars, detect_vars,
                   detect_obs, prev_opto_timestamp, opto_timed_out, timestamp,
                   need_publish, tach, voltage, failure_latch, PORTB, last_edge,
                   stalls_in_run, gap_over, serial_obs, pub_obs, track_obs>>

\* Lines 262-268: try to load the frame, latch a failure, drive the LED and
\* close the iteration.  The locals of the loop body go out of scope here: the
\* model puts them back to the values they have before an iteration sets them.
PublishWaitsForDrain ==
    /\ pc = "send"
    /\ ~FrameDraining(next_index)
    /\ serial_send(tach, voltage, current)
    /\ failure_latch' = FailureLatch(failure_latch, success')
    /\ PORTB' = led_set(PORTB, failure_latch')
    /\ pc' = "wait_opto"
    /\ need_publish' = FALSE
    /\ tach' = 0
    /\ voltage' = 0
    /\ current' = 0
    /\ timestamp' = 0
    /\ last_op' = "serial_send"
    \* observation: a serial_send call has been made; one has been rejected
    /\ sends_done' = TRUE
    /\ rejected_seen' = (rejected_seen \/ ~success')
    /\ unsent' = unsent - 1
    /\ UNCHANGED <<adc_vars, dc_vars, detect_vars, detect_obs, prev_opto_timestamp,
                   opto_timed_out, last_edge, stalls_in_run, gap_over, serial_obs,
                   track_obs>>

Publish ==
    /\ pc = "send"
    /\ serial_send(tach, voltage, current)
    /\ failure_latch' = FailureLatch(failure_latch, success')
    /\ PORTB' = led_set(PORTB, failure_latch')
    /\ pc' = "wait_opto"
    /\ need_publish' = FALSE
    /\ tach' = 0
    /\ voltage' = 0
    /\ current' = 0
    /\ timestamp' = 0
    /\ last_op' = "serial_send"
    \* observation: a serial_send call has been made; one has been rejected
    /\ sends_done' = TRUE
    /\ rejected_seen' = (rejected_seen \/ ~success')
    /\ unsent' = unsent - 1
    /\ UNCHANGED <<adc_vars, dc_vars, detect_vars, detect_obs, prev_opto_timestamp,
                   opto_timed_out, last_edge, stalls_in_run, gap_over, serial_obs,
                   track_obs>>

Next ==
    AdcComplete \/ WaitPoll \/ Iterate \/ StartVoltage \/ ReadVoltage \/ ReadCurrent
        \/ Publish

Spec == Init /\ [][Next]_vars

\* ----------------------------------------------------- the main loop, scheduled

\* the steps the processor takes: it runs main without interruption (no
\* interrupt is enabled), so a step of the program that can be taken is taken
CpuStep == WaitPoll \/ Iterate \/ StartVoltage \/ ReadVoltage \/ ReadCurrent \/ Publish

\* The scheduled runs are checked over fewer inputs than Spec: timer readings
\* from LiveStamps at the iterations that keep theirs, and one value of the
\* wide conversions.
LiveStamps == {1000, 60000}

LiveWide == {1023}

LiveInputs ==
    /\ prev_opto_timestamp \in LiveStamps
    /\ timestamp \in LiveStamps \cup {0}
    /\ voltage \in LiveWide \cup {0}
    /\ current \in LiveWide \cup {0}

InitLive == Init /\ LiveInputs

NextLive ==
    \/ AdcComplete /\ LiveInputs'
    \/ WaitPoll /\ LiveInputs'
    \/ Iterate /\ LiveInputs'
    \/ StartVoltage /\ LiveInputs'
    \/ ReadVoltage /\ LiveInputs'
    \/ ReadCurrent /\ LiveInputs'
    \/ Publish /\ LiveInputs'

\* The main loop with a processor that keeps running and a converter that
\* finishes every conversion it has started.  Nothing is assumed about the
\* transmitter: every serial_poll call may find it busy.
FairSpec == InitLive /\ [][NextLive]_vars /\ WF_vars(AdcComplete) /\ WF_vars(CpuStep)

\* a wait-loop turn whose serial_poll call finds the transmitter ready
WaitPollReady == WaitTurn(TRUE)

\* FairSpec with a transmitter that takes bytes: the wait loops are entered
\* with the conversion still running again and again (a conversion lasts 13
\* converter clocks of 64 processor clocks each, and the loops of lines 251 and
\* 256 are tested right after adc_start), and of the serial_poll calls they
\* make while a frame is draining, some find the transmitter ready.
FairSpecTx == FairSpec /\ SF_vars(WaitPollReady /\ next_index < SERIAL_FRAME_SIZE)

\* -------------------------------------- SpecTrack: the tracking against true time

\* ticks of the timer between one iteration's reading and the next, all
\* within 1 .. 2^16 - 1 - 50000
TickSteps == {1, 3395, 15535}

\* iterations the tracking is followed for
MaxTrackCalls == 10

\* The tracking of lines 232-244 alone, fed with any sequence of detector
\* results, the iterations TickSteps apart.  The observer keeps the true
\* (unwrapped) number of ticks since prev_opto_timestamp was stored, from which
\* the 16-bit timer reading of the iteration follows, and the true number of
\* ticks since the last edge (-1 before the first one).
TrackCall ==
    /\ track_calls < MaxTrackCalls
    /\ \E d \in TickSteps, e \in BOOLEAN :
        LET ts == (prev_opto_timestamp + true_gap + d) % U16
        IN  /\ Tracker(e, ts)
            /\ edge' = e
            /\ gap_at_call' = true_gap + d
            /\ true_gap' = IF prev_opto_timestamp' = ts /\ (e \/ need_publish')
                             THEN 0 ELSE true_gap + d
            /\ since_edge' = IF e THEN 0
                             ELSE IF since_edge < 0 THEN -1
                             ELSE since_edge + d
    /\ track_calls' = track_calls + 1
    /\ last_op' = "track"
    /\ UNCHANGED <<serial_vars, success, dc_vars, in_peak, dc, ac, PORTD, detect_obs,
                   adc_vars, pc, timestamp, voltage, current, failure_latch, PORTB,
                   last_edge, stalls_in_run, gap_over, serial_obs, pub_obs>>

NextTrack == TrackCall

SpecTrack == Init /\ [][NextTrack]_vars

\* --------------------------------------------- SpecSerial: the frame buffer alone

\* the buffer as a sequence of SERIAL_FRAME_SIZE bytes
AsSeq(d) == [k \in 1..SERIAL_FRAME_SIZE |-> d[k - 1]]

\* One call of serial_send with arbitrary arguments.  The observer appends the
\* arguments and the frame bytes of every accepted call to loaded; it offers
\* calls until MaxFrames frames have been accepted.
SendCall ==
    /\ Len(loaded) < MaxFrames
    /\ \E t \in Words, v \in Words, c \in Words :
        /\ serial_send(t, v, c)
        /\ loaded' = IF success'
                       THEN Append(loaded, [args |-> <<t, v, c>>, bytes |-> AsSeq(data')])
                       ELSE loaded
    /\ last_op' = "serial_send"
    /\ UNCHANGED <<txlog, polled_ready, dc_vars, detect_vars, detect_obs, adc_vars,
                   main_vars, pub_obs, track_obs>>

\* One call of serial_poll, the transmitter ready or not.  The observer appends
\* every byte written to UDR0 to txlog.
PollCall ==
    /\ \E txready \in BOOLEAN :
        /\ serial_poll(txready)
        /\ txlog' = IF next_index < SERIAL_FRAME_SIZE /\ txready
                      THEN Append(txlog, UDR0')
                      ELSE txlog
        \* observation: whether the transmitter was ready at this call
        /\ polled_ready' = txready
    /\ last_op' = "serial_poll"
    /\ UNCHANGED <<success, loaded, dc_vars, detect_vars, detect_obs, adc_vars, main_vars,
                   pub_obs, track_obs>>

NextSerial == SendCall \/ PollCall

SpecSerial == Init /\ [][NextSerial]_vars

\* --------------------------------------------------- properties of the detector

\* a step that is one call of opto_detect_edge (every call moves num_samples
\* or index)
DetectStep ==
    /\ last_op' = "opto_detect_edge"
    /\ <<num_samples, index>>' # <<num_samples, index>>

\* the RPM output, PD2
RpmAsserted == Bit(PORTD, 2)

\* the ring read oldest entry first
RingOldestFirst ==
    [k \in 1..num_samples |->
        hist[IF num_samples = OPTO_DC_HISTORY_LEN
               THEN (index + k - 1) % OPTO_DC_HISTORY_LEN
               ELSE k - 1]]

\* the uint32_t running sum never wraps: it stays within 0 .. 255 * window, and
\* the entry subtracted on eviction never exceeds it
SumInRange ==
    /\ sum >= 0
    /\ sum <= 255 * OPTO_DC_HISTORY_LEN
    /\ num_samples = OPTO_DC_HISTORY_LEN /\ index < OPTO_DC_HISTORY_LEN
         => sum >= hist[index]

\* C4: the bias returned by the N-th call is floor(sum of the last min(N, W)
\* samples / min(N, W)): the mean of all samples while the window is filling
\* and of the most recent W samples afterwards.
C4_BiasIsWindowMean ==
    Len(recent) >= 1 => dc = SumSeq(recent) \div Len(recent)

\* C4 witness: the window has been full for a while (the ring has wrapped past
\* slot 0), the samples in it differ and the mean is rounded down.
C4_Witness ==
    /\ num_samples = OPTO_DC_HISTORY_LEN
    /\ index = 1
    /\ Len(recent) = OPTO_DC_HISTORY_LEN
    /\ SumSeq(recent) % OPTO_DC_HISTORY_LEN # 0
    /\ dc = 98

\* C5: num_samples <= W and index < W; the running sum is the sum of the
\* num_samples valid ring entries and at most 255 * W; the ring holds exactly
\* the most recent samples, and once it is full a call overwrites exactly one
\* entry, the oldest (the one at index), and advances index modulo W.
C5_RingInvariant ==
    /\ [](/\ num_samples <= OPTO_DC_HISTORY_LEN
          /\ index < OPTO_DC_HISTORY_LEN
          /\ SumInRange
          /\ sum = SumSeq([k \in 1..num_samples |-> hist[k - 1]])
          /\ RingOldestFirst = recent)
    /\ [][DetectStep /\ num_samples = OPTO_DC_HISTORY_LEN =>
            /\ \A i \in 0..(OPTO_DC_HISTORY_LEN - 1) : i # index => hist'[i] = hist[i]
            /\ hist[index] = Head(recent)
            /\ hist'[index] = recent'[Len(recent')]
            /\ index' = (index + 1) % OPTO_DC_HISTORY_LEN
            /\ num_samples' = num_samples]_vars

\* C5 witness: a full ring whose index has wrapped back to 0 after overwriting
\* every slot with a value other than the one it replaced
C5_Witness ==
    /\ num_samples = OPTO_DC_HISTORY_LEN
    /\ index = 0
    /\ \A i \in 0..(OPTO_DC_HISTORY_LEN - 1) : hist[i] = 255
    /\ sum = 255 * OPTO_DC_HISTORY_LEN
    /\ last_op = "opto_detect_edge"
    /\ edges_seen = 2

\* C6: a call returns true only if, since the previous call that returned true,
\* some call made while in_peak was set saw ac below 7 and reset in_peak.
C6_NoDoubleTrigger ==
    [][DetectStep /\ edge' /\ edges_seen >= 1 => idle_since_edge]_vars

\* C6 witness: a second edge has just been reported
C6_Witness ==
    /\ last_op = "opto_detect_edge"
    /\ edge
    /\ edges_seen = 2

\* C7 as stated: the RPM output is asserted exactly when in_peak is set, in
\* every state from initialisation onward.
C7_OutputEqualsInPeak == RpmAsserted <=> in_peak

\* C7 amended: the output is asserted whenever in_peak is set; a call that
\* starts idle leaves the output asserted iff it sets in_peak; a call that
\* starts in the peak state leaves the output as it was.
C7_OutputFollowsIdleCalls ==
    /\ [](in_peak => RpmAsserted)
    /\ [][DetectStep /\ ~in_peak => (RpmAsserted' <=> in_peak')]_vars
    /\ [][DetectStep /\ in_peak => PORTD' = PORTD]_vars

\* C7 witness: a call has reset in_peak and the output is still asserted
C7_Witness ==
    /\ last_op = "opto_detect_edge"
    /\ edges_seen >= 1
    /\ ~in_peak
    /\ RpmAsserted

\* ----------------------------------------------- properties of the frame buffer

\* a step that is one call of serial_send
SendStep == last_op' = "serial_send"

\* a 16-bit value read back from two frame bytes, low byte first
Decode16(lo, hi) == lo + 256 * hi

RECURSIVE Flatten(_)
Flatten(frames) ==
    IF frames = <<>> THEN <<>> ELSE Head(frames).bytes \o Flatten(Tail(frames))

\* C8: an accepted serial_send(tach, voltage, current) leaves data[0] = 0xFA,
\* data[2..3], data[4..5], data[6..7] the little-endian encodings of tach,
\* voltage and current, data[1] the sum of data[2..7] modulo 256, and
\* next_index = 0.
C8_FrameRoundTrip ==
    [][SendStep /\ success' =>
        LET a == loaded'[Len(loaded')].args IN
        /\ data'[0] = 250
        /\ Decode16(data'[2], data'[3]) = a[1]
        /\ Decode16(data'[4], data'[5]) = a[2]
        /\ Decode16(data'[6], data'[7]) = a[3]
        /\ \A i \in 2..7 : data'[i] \in 0..255
        /\ data'[1] = (data'[2] + data'[3] + data'[4] + data'[5] + data'[6] + data'[7]) % 256
        /\ next_index' = 0]_vars

\* C8 witness: a frame just loaded whose three fields differ, with both bytes
\* of a field non-zero and a byte sum that exceeds 255
C8_Witness ==
    /\ last_op = "serial_send"
    /\ success
    /\ next_index = 0
    /\ Len(loaded) >= 1
    /\ loaded[Len(loaded)].args = <<500, 65535, 0>>
    /\ data[1] = 243

\* C9: serial_send called while next_index < 8 returns false and leaves the
\* eight frame bytes and the cursor unchanged; it returns true only when
\* called with next_index = 8.
C9_Backpressure ==
    /\ [][SendStep /\ next_index < 8 =>
            ~success' /\ data' = data /\ next_index' = next_index]_vars
    /\ [][SendStep /\ success' => next_index = 8]_vars

\* C9 witness: a call has just been rejected with a frame partly sent
C9_Witness ==
    /\ last_op = "serial_send"
    /\ ~success
    /\ next_index \in 1..7
    /\ Len(txlog) = next_index

\* C10: the bytes written to the transmit register are the accepted frames in
\* order, each complete and in index order, followed by the first next_index
\* bytes of the frame now loaded.
C10_TxIsWholeFramesThenPrefix ==
    txlog = IF loaded = <<>>
              THEN <<>>
              ELSE Flatten(SubSeq(loaded, 1, Len(loaded) - 1))
                     \o SubSeq(AsSeq(data), 1, next_index)

\* C10 witness: one whole frame has gone out and a different second frame is
\* partly sent
C10_Witness ==
    /\ Len(loaded) = 2
    /\ loaded[1].bytes # loaded[2].bytes
    /\ next_index = 3
    /\ Len(txlog) = SERIAL_FRAME_SIZE + 3

\* ------------------------------------------ properties of the period/timeout tracking

\* a step that is one scheduler iteration (lines 223-246)
IterateStep == pc = "wait_opto" /\ DetectStep

\* (a - b) modulo 2^16
Wrapped16(a, b) == IF a - b < 0 THEN a - b + 65536 ELSE a - b

\* C1 as stated: an iteration without an edge that starts with timed_out set
\* (after a stall event, or after power-up) reports nothing, so that a gap
\* without edges yields a single stall event however long it lasts.
C1_NoStallWhileTimedOut ==
    [][IterateStep /\ ~edge' /\ opto_timed_out => ~need_publish']_vars

\* C1 amended: an iteration without an edge reports a stall event (period 0)
\* exactly when the 16-bit-wrapped timestamp - prev_timestamp exceeds 50000,
\* whether or not timed_out is already set; the event sets timed_out and
\* prev_timestamp = timestamp, so that stall events repeat, one per timeout
\* interval, for as long as the gap lasts.  Otherwise the iteration reports
\* nothing and leaves timed_out and prev_timestamp alone.
C1_StallWheneverGapOver ==
    [][IterateStep /\ ~edge' =>
        /\ need_publish' <=> gap_over'
        /\ need_publish' =>
              /\ tach' = 0
              /\ opto_timed_out'
              /\ prev_opto_timestamp' = timestamp'
              /\ Wrapped16(timestamp', prev_opto_timestamp) > 50000
        /\ ~need_publish' =>
              UNCHANGED <<opto_timed_out, prev_opto_timestamp>>]_vars

\* C1 witness: a second stall event is being published in one gap without edges
C1_Witness ==
    /\ pc = "wait_pub"
    /\ ~edge
    /\ need_publish
    /\ tach = 0
    /\ opto_timed_out
    /\ stalls_in_run = 2

\* C2: an edge detected while timed_out is set reports nothing, clears
\* timed_out and sets prev_timestamp to the current timestamp; a period is
\* reported only for an edge detected while timed_out is clear, and every such
\* edge reports one (one edge is absorbed, then reporting resumes).
C2_EdgeAbsorbedWhenTimedOut ==
    /\ [][IterateStep /\ edge' /\ opto_timed_out =>
            /\ ~need_publish'
            /\ ~opto_timed_out'
            /\ prev_opto_timestamp' = last_edge']_vars
    /\ [][IterateStep /\ edge' /\ need_publish' => ~opto_timed_out]_vars
    /\ [][IterateStep /\ edge' /\ ~opto_timed_out =>
            need_publish' /\ ~opto_timed_out']_vars

\* C2 witness: an edge that is not the first one has just been absorbed (a
\* stall event lies between it and the edge before it)
C2_Witness ==
    /\ last_op = "opto_detect_edge"
    /\ pc = "wait_opto"
    /\ edge
    /\ edges_seen = 2
    /\ ~need_publish
    /\ ~opto_timed_out
    /\ prev_opto_timestamp = last_edge

\* C3: for consecutive detected edges at t1 and t2 with no stall event between
\* them, the iteration of the second edge reports the period (t2 - t1) mod
\* 2^16; prev_timestamp is t2 after every detected edge.
C3_PeriodIsWrappedDelta ==
    /\ [][IterateStep /\ edge' /\ last_edge # -1 =>
            /\ need_publish'
            /\ timestamp' = last_edge'
            /\ tach' = Wrapped16(timestamp', last_edge)]_vars
    /\ [][IterateStep /\ edge' => prev_opto_timestamp' = last_edge']_vars

\* C3 witness: the timer wrapped between two edges, 60000 and 1000
C3_Witness ==
    /\ pc = "wait_pub"
    /\ edge
    /\ need_publish
    /\ timestamp = 1000
    /\ last_edge = 1000
    /\ tach = 6536

\* ------------------------------------------------ properties of the publish cycle

\* a step that is the serial_send call of a publish cycle (lines 262-266)
PublishStep == pc = "send" /\ pc' = "wait_opto"

\* the indicator LED, PB5
LedAsserted == Bit(PORTB, 5)

\* C11: failure_latch is sticky.  It never goes from true to false; a publish
\* cycle leaves it true exactly when it was true already or this cycle's
\* serial_send returned false; no other step changes it; and every publish
\* cycle that leaves it true drives the LED asserted, also when this cycle's
\* frame was loaded.
C11_FailureLatchSticky ==
    /\ [][failure_latch => failure_latch']_vars
    /\ [][PublishStep => (failure_latch' <=> (failure_latch \/ ~success'))]_vars
    /\ [][~PublishStep => failure_latch' = failure_latch]_vars
    /\ [][PublishStep /\ failure_latch' => Bit(PORTB', 5)]_vars

\* a publish cycle has just loaded its frame, the latch stays set from an
\* earlier rejected load and the LED is still asserted
C11_Witness ==
    /\ last_op = "serial_send"
    /\ success
    /\ next_index = 0
    /\ failure_latch
    /\ LedAsserted

\* C12 as stated: in every reachable state, from initialisation onward, the LED
\* is asserted exactly when some earlier serial_send call has been rejected.
C12_LedIffRejected == LedAsserted <=> rejected_seen

\* C12: once a serial_send call has been made, the LED is asserted exactly when
\* some serial_send call has been rejected; from initialisation until the
\* first serial_send call the LED is asserted although nothing has been
\* rejected.
C12_LedIffRejectedAfterFirstSend ==
    /\ sends_done => (LedAsserted <=> rejected_seen)
    /\ ~sends_done => (LedAsserted /\ ~rejected_seen)

\* the first publish cycle has loaded its frame and switched the LED off, and
\* the program is back in the wait of the next iteration
C12_Witness ==
    /\ sends_done
    /\ ~rejected_seen
    /\ ~LedAsserted
    /\ pc = "wait_opto"

\* --------------------------------------------------- properties of the scheduling

\* C13: transmission never blocks sampling.  With every started conversion
\* completing, a new optical sample is fed to the edge detector again and
\* again, whatever the transmitter and the cursor do; and once the conversion
\* a wait loop waits for is ready, the loop makes no further serial_poll call:
\* the next step of the program leaves the loop.
C13_SamplingNeverBlocked ==
    /\ []<>(last_op = "opto_detect_edge")
    /\ [][(pc \in WaitPcs /\ adc_ready) => (last_op' # "serial_poll" /\ UNCHANGED serial_vars)]_vars

\* an iteration has fed a sample to the detector while a loaded frame has not
\* been touched by the transmitter at all
C13_Witness ==
    /\ last_op = "opto_detect_edge"
    /\ next_index = 0
    /\ sends_done
    /\ rejected_seen

\* C14: a loaded frame is eventually transmitted in full.  Whenever the cursor
\* is below the frame length (which it is right after every serial_send that
\* returned true), it eventually reaches the frame length; until then it only
\* moves forward, one byte for each serial_poll call of a wait loop.
C14_FrameEventuallyDrained ==
    /\ (next_index < SERIAL_FRAME_SIZE) ~> (next_index = SERIAL_FRAME_SIZE)
    /\ [][PublishStep /\ success' => next_index' = 0]_vars
    /\ [][next_index' # next_index /\ ~(PublishStep /\ success')
            => (/\ next_index' = next_index + 1
                /\ pc \in WaitPcs
                /\ last_op' = "serial_poll")]_vars

\* a frame that was loaded has been sent out whole: the cursor is back at the
\* frame length and the transmit register holds the frame's last byte
C14_Witness ==
    /\ sends_done
    /\ next_index = SERIAL_FRAME_SIZE
    /\ last_op = "serial_poll"
    /\ UDR0 = data[SERIAL_FRAME_SIZE - 1]
    /\ data[0] = SERIAL_FRAME_HEADER

\* ------------------------------------------------ one frame per reportable event

\* the steps of a publish cycle, from the decision of line 246 to the
\* serial_send call
PublishPcs == {"wait_pub", "wait_volt", "wait_curr", "send"}

\* the three measurements read back from the frame bytes
FrameFields(d) ==
    <<d[2] + 256 * d[3], d[4] + 256 * d[5], d[6] + 256 * d[7]>>

\* C15: one serial_send attempt per reportable event.  A publish cycle is under
\* way exactly when the iteration found a reportable event, and exactly one
\* event is then waiting for its attempt; outside a publish cycle none is, so
\* attempts (frames loaded plus loads rejected) and reportable events are equal
\* in number whenever an iteration ends.  The cycle keeps the event's tach, and
\* its attempt carries that tach with the voltage and the current read in this
\* cycle; a rejected attempt changes nothing in the frame buffer and its
\* measurement is gone when the cycle ends.
C15_OneAttemptPerEvent ==
    /\ [](unsent = IF pc \in PublishPcs THEN 1 ELSE 0)
    /\ [](need_publish <=> (pc \in PublishPcs))
    /\ []((pc \notin PublishPcs) => (tach = 0 /\ voltage = 0 /\ current = 0))
    /\ [][IterateStep => ((pc' = "wait_pub") <=> need_publish')]_vars
    /\ [][((pc \in PublishPcs) /\ ~PublishStep)
            => ((tach' = tach) /\ (pc' \in PublishPcs))]_vars
    /\ [][(pc = "wait_volt" /\ pc' # pc)
            => ((voltage' \in AdcWide) /\ pc' = "wait_curr")]_vars
    /\ [][(pc = "wait_curr" /\ pc' # pc)
            => ((current' \in AdcWide) /\ voltage' = voltage /\ pc' = "send")]_vars
    /\ [][(pc = "send" /\ ~PublishStep)
            => (voltage' = voltage /\ current' = current)]_vars
    /\ [][PublishStep
            => (/\ last_op' = "serial_send"
                /\ success' => (FrameFields(data') = <<tach, voltage, current>>)
                /\ ~success' => (data' = data /\ next_index' = next_index))]_vars
    /\ [][(last_op' = "serial_send" /\ last_op # "serial_send") => PublishStep]_vars

\* an event's attempt has been rejected and the next iteration is awaited with
\* nothing left to send
C15_Witness ==
    /\ last_op = "serial_send"
    /\ ~success
    /\ unsent = 0
    /\ pc = "wait_opto"
    /\ next_index < SERIAL_FRAME_SIZE

\* ------------------------------------------------------ the detector's state flag

\* the sample of the call just made, less the mean of the recent samples with
\* that sample among them
AcOfLastCall == recent[Len(recent)] - (SumSeq(recent) \div Len(recent))

\* C16: the hysteresis state machine.  A call returns true exactly when it
\* starts with in_peak false and ac = sample - bias is above 30, the bias being
\* the estimate already updated with this sample, and exactly such a call sets
\* in_peak; a call that starts with in_peak true returns false and resets
\* in_peak exactly when ac is below 7; nothing else changes in_peak.
C16_HysteresisStateMachine ==
    /\ [][DetectStep
            => (/\ ac' = AcOfLastCall'
                /\ edge' <=> (~in_peak /\ ac' > 30)
                /\ ~in_peak => (in_peak' <=> (ac' > 30))
                /\ in_peak => (~edge' /\ (in_peak' <=> ~(ac' < 7))))]_vars
    /\ [][~DetectStep => in_peak' = in_peak]_vars

\* a call in the peak state has kept in_peak with ac between the two
\* thresholds
C16_Witness ==
    /\ last_op = "opto_detect_edge"
    /\ in_peak
    /\ ~edge
    /\ ac >= 7
    /\ ac <= 30

\* ----------------------------------------------------- the analog multiplexer

\* C17: the order of a publish cycle.  The cycle goes through its steps in one
\* order only: Voltage is selected and its conversion started, the wait for it
\* ends with the voltage read and at once Current selected and started, the
\* wait for that ends with the current read and at once Optical selected and
\* the next optical conversion started, and only then comes the serial_send
\* call, with the voltage and the current just read.  The selected channel is
\* Voltage only during the voltage wait and Current only during the current
\* wait; everywhere else it is Optical.
C17_PublishCycleOrder ==
    /\ [](adc_channel = (IF pc = "wait_volt" THEN 7 ELSE IF pc = "wait_curr" THEN 6 ELSE 0))
    /\ [][pc' # pc
            => (<<pc, pc'>> \in {<<"wait_opto", "wait_pub">>, <<"wait_pub", "wait_volt">>,
                                <<"wait_volt", "wait_curr">>, <<"wait_curr", "send">>,
                                <<"send", "wait_opto">>})]_vars
    /\ [][(pc' # pc /\ pc' \in {"wait_volt", "wait_curr", "send"})
            => (adc_ready /\ ~adc_ready' /\ adc_conv_chan' = adc_channel')]_vars
    /\ [][(pc = "wait_volt" /\ pc' # pc) => (voltage = 0 /\ voltage' # 0)]_vars
    /\ [][(pc = "wait_curr" /\ pc' # pc) => (current = 0 /\ current' # 0)]_vars
    /\ [][PublishStep
            => (adc_channel = 0 /\ adc_conv_chan = 0 /\ voltage # 0 /\ current # 0
                /\ UNCHANGED <<adc_channel, adc_conv_chan, adc_ready>>)]_vars

\* the voltage has been read, Current is selected and its conversion is running
C17_Witness ==
    /\ pc = "wait_curr"
    /\ adc_channel = 6
    /\ ~adc_ready
    /\ voltage # 0
    /\ current = 0

\* ------------------------------------------------------------ the drain step

\* a step that is one call of serial_poll
PollStep == last_op' = "serial_poll"

\* C18: the effect of serial_poll.  A call made with the cursor below 8 and the
\* transmitter ready writes the byte under the cursor to the transmit register
\* and moves the cursor forward by exactly one; any other call changes
\* nothing; no call changes a frame byte.  The cursor is within 0..8 in every
\* state, and is 8 after initialisation.
C18_PollEffect ==
    /\ [][PollStep
            => (/\ data' = data
                /\ IF next_index < 8 /\ polled_ready'
                     THEN UDR0' = data[next_index] /\ next_index' = next_index + 1
                     ELSE UDR0' = UDR0 /\ next_index' = next_index)]_vars
    /\ [](next_index \in 0..8)
    /\ [](last_op = "init" => next_index = 8)

\* the last byte of a frame has just been written and the cursor is at 8
C18_Witness ==
    /\ last_op = "serial_poll"
    /\ polled_ready
    /\ next_index = 8
    /\ Len(txlog) = 8
    /\ UDR0 = data[7]

\* ---------------------------------------------------------- channel integrity

\* C19: every result is read from the channel it is meant for.  The sample an
\* iteration feeds to the detector, the voltage and the current are each read
\* with the conversion flag up and the data register holding the result of a
\* conversion that was started with, respectively, Optical, Voltage and
\* Current selected; and the channel selection changes only while no
\* conversion is running.
C19_ChannelIntegrity ==
    /\ [][IterateStep => (adc_ready /\ adc_result_chan = 0)]_vars
    /\ [][(pc = "wait_volt" /\ voltage' # voltage) => (adc_ready /\ adc_result_chan = 7)]_vars
    /\ [][(pc = "wait_curr" /\ current' # current) => (adc_ready /\ adc_result_chan = 6)]_vars
    /\ [][(voltage' # voltage /\ voltage' # 0) => pc = "wait_volt"]_vars
    /\ [][(current' # current /\ current' # 0) => pc = "wait_curr"]_vars
    /\ [][adc_channel' # adc_channel => adc_ready]_vars
    /\ [][adc_conv_chan' # adc_conv_chan
            => (adc_ready /\ ~adc_ready' /\ adc_conv_chan' = adc_channel')]_vars
    /\ [](adc_ready => adc_result_chan = adc_conv_chan)

\* the current conversion has completed and its result waits to be read
C19_Witness ==
    /\ pc = "wait_curr"
    /\ adc_ready
    /\ adc_result_chan = 6
    /\ voltage # 0

\* ------------------------------------------------------------ period aliasing

\* a step that is one iteration of the tracking against true time
TrackStep == last_op' = "track" /\ track_calls' # track_calls

\* the ticks between the previous iteration and the one of this step
StepTicks == gap_at_call' - true_gap

\* the first iteration at which more than 50000 ticks have passed since the
\* last edge
GapJustExceeded ==
    /\ TrackStep
    /\ since_edge >= 0
    /\ since_edge <= 50000
    /\ since_edge + StepTicks > 50000

\* every reported edge-derived period is the true number of ticks since the
\* previous edge, within 1..65535, and a reported period of 0 is a stall event
PeriodsAreTrue ==
    /\ TickSteps \subseteq 1..15535
    /\ [][(TrackStep /\ edge' /\ need_publish')
            => (/\ since_edge >= 0
                /\ tach' = since_edge + StepTicks
                /\ tach' >= 1
                /\ tach' <= 65535)]_vars
    /\ [][(TrackStep /\ need_publish' /\ tach' = 0) => (~edge' /\ opto_timed_out')]_vars

\* C20 as stated: periods are true, and a gap of more than 50000 ticks is
\* reported as a stall.
C20_GapOverIsStall ==
    /\ PeriodsAreTrue
    /\ [][GapJustExceeded => (~edge' /\ need_publish' /\ tach' = 0 /\ opto_timed_out')]_vars

\* C20: periods are true, and a gap of more than 50000 ticks is never reported
\* as a wrapped short period: the first iteration past 50000 ticks reports a
\* stall if it detects no edge, and if it detects one it reports the true
\* period, which is then between 50001 and 65535.
C20_NoPeriodAliasing ==
    /\ PeriodsAreTrue
    /\ [][GapJustExceeded
            => (/\ need_publish'
                /\ IF edge'
                     THEN tach' = since_edge + StepTicks /\ tach' > 50000 /\ ~opto_timed_out'
                     ELSE tach' = 0 /\ opto_timed_out')]_vars

\* an edge has been reported with the longest period there can be, 65535 ticks
\* after the previous edge
C20_Witness ==
    /\ last_op = "track"
    /\ edge
    /\ need_publish
    /\ tach = 65535
    /\ gap_at_call = 65535

====
